---- MODULE Spec2Model ----
(***************************************************************************)
(* Forms-Exporter: the response synchronization pipeline.                  *)
(*                                                                         *)
(* The repository holds three entry points that are run as separate        *)
(* processes:                                                              *)
(*   "bot"    cogs/functions/forms.py   the notify loop check_stopped_loop *)
(*                                      (export_form + channel.send) with  *)
(*                                      the sqlite table forms as the      *)
(*                                      Dedup Store                        *)
(*   "main"   main.py                   initial_export, then run_every_hour*)
(*   "export" export.py                 the same loop, without the mapping *)
(* A behaviour of the model is a run of one of them (program).             *)
(*                                                                         *)
(* Three specifications:                                                   *)
(*   Spec         the loops of the three programs                          *)
(*   SpecRefresh  Spec with cogs/functions/sqlite.py: check_tables and the *)
(*                command /refreshtable acting on the table forms          *)
(*   FnSpec       single calls of export_using_forms_api,                  *)
(*                export_using_sheet_api and export_form on tables that    *)
(*                are held cell by cell                                    *)
(*                                                                         *)
(* Abstractions.  A row of the table is [id, ct]: its responseId cell and  *)
(* whether its createTime cell parses with "%Y-%m-%dT%H:%M:%S.%fZ".  The   *)
(* answer cells only end up in the text of the message and are left out;   *)
(* msg_lines holds, per row appended to the message, that row.             *)
(***************************************************************************)
EXTENDS Naturals, Integers, Sequences, FiniteSets, TLC

\* ------------------------------------------------------------------ bounds
MaxResponses == 2   \* responses submitted to the upstream forms, all together
MaxGrid == 2        \* rows of a sheet's values

\* ----------------------------------------------------------- configuration
\* config["Forms"]: the configured sources, in configured order.
Forms == <<"f1", "f2">>

FormIds == {Forms[i] : i \in 1..Len(Forms)}

\* The Forms API numbers the responses: every response has its own
\* responseId.
Ids == 1..MaxResponses

\* A flattened response: the responseId and whether createTime parses.
Rows == [id : Ids, ct : {"ok", "bad"}]

\* "No responses found."
NOTICE == [kind |-> "notice", rows |-> <<>>]

\* The return value None of export_form / the retrieval helpers.
None == [kind |-> "none"]

\* No cycle of the form has returned from export_form yet.
Never == [kind |-> "never"]

VARIABLES
    program,        \* which entry point this process runs
    responses,      \* upstream: form -> the responses the Forms API returns
    store,          \* the response_id values in table forms of database.db
    npc,            \* check_stopped_loop: control position
    ni,             \* check_stopped_loop: index of form_config in config["Forms"]
    df,             \* export_form: the retrieved table (or None)
    idx,            \* export_form: position of df.iterrows()
    msg_lines,      \* export_form: rows appended to the message so far
    response_text,  \* check_stopped_loop: what export_form returned
    sunk,           \* what channel.send took in the current cycle (or None)
    delivered,      \* record ids of rows in messages channel.send accepted
                    \* since the table forms was last dropped
    store0,         \* the store as it was when the current cycle began
    lastDf,         \* form -> table of the last cycle whose export_form returned;
                    \* kept as long as nothing has managed the store
    inflight,       \* form -> number of cycles of that form started and not ended
    epc,            \* main / initial_export / run_every_hour: control position
    ei,             \* initial_export / run_every_hour: index of form_config
    elast,          \* what the last call of export_form in main.py / export.py gave
    ecount,         \* form, record id -> how often the row went to the export sink
    table,          \* database.db holds a table forms
    rpc,            \* refresh_table: "dropped" between its DROP and its CREATE
    dbop,           \* the last thing check_tables / refresh_table did to the store
    storeErr,       \* a query of the current cycle found no table forms
    fin,            \* a single call under study: the function and its arguments
    fout            \* what that call gave

vars == <<program, responses, store, npc, ni, df, idx, msg_lines, response_text,
          sunk, delivered, store0, lastDf, inflight, epc, ei, elast, ecount,
          table, rpc, dbop, storeErr, fin, fout>>

nvars == <<store, npc, ni, df, idx, msg_lines, response_text, sunk, delivered,
           store0, lastDf, storeErr>>

evars == <<epc, ei, elast, ecount>>

dvars == <<table, rpc, dbop>>

fvars == <<fin, fout>>

\* ------------------------------------------------------------------ helpers
RECURSIVE SeqIds(_)
SeqIds(s) == IF s = <<>> THEN {} ELSE {Head(s).id} \cup SeqIds(Tail(s))

TotalResponses == LET RECURSIVE Sum(_)
                      Sum(i) == IF i = 0 THEN 0 ELSE Len(responses[Forms[i]]) + Sum(i - 1)
                  IN Sum(Len(Forms))

\* A table as export_form holds it: the rows and whether a column named
\* "responseId" exists (primary path: always; fallback path: only when the
\* sheet's header row has such a cell).
Table(rows, rid) == [kind |-> "table", rows |-> rows, rid |-> rid]

\* export_using_forms_api: the API's answer for the form is "ok" (the call
\* returned) or "http_error" (HttpError).  An error and an empty list of
\* responses both give None; otherwise the flattened rows.
export_using_forms_api(f, api) ==
    IF api = "http_error" \/ responses[f] = <<>>
    THEN None
    ELSE Table(responses[f], TRUE)

\* What get_linked_sheet_id + export_using_sheet_api can give: None (no linked
\* sheet, HttpError, no values) or the grid below its header row.  A sheet row
\* has no createTime column here (ct = "absent"); its header may or may not
\* hold a cell "responseId", and nothing keeps two of its rows from holding
\* the same cell there.  A grid of the header row alone gives a table without
\* rows.
SheetRow == [id |-> 1, ct |-> "absent"]

SheetTables ==
    {None, Table(<<>>, FALSE), Table(<<SheetRow>>, FALSE),
     Table(<<SheetRow, SheetRow>>, TRUE)}

\* get_linked_sheet_id: "linked" when the form's metadata names a spreadsheet
\* as its response destination, "none" for return None (no destination, no
\* spreadsheet, HttpError).
Links == {"linked", "none"}

\* The test df is None on what export_using_forms_api returned.  main.py and
\* forms.py unpack the pair (df, mapping) first; export.py tests the returned
\* value itself, and neither a DataFrame nor the pair (None, {}) is None.
df_is_None(prog, primary) == prog # "export" /\ primary = None

\* The fallback chain reading a sheet whether or not one is linked.
Fallback_unlinked(link, sheet) == sheet

\* The fallback chain: get_linked_sheet_id, then export_using_sheet_api when
\* there is a linked sheet, else return None.
Fallback(link, sheet) == IF link = "linked" THEN sheet ELSE None

\* The client calls one export_form makes, in order.
Calls(prog, primary, link) ==
    <<"forms_api">>
    \o (IF df_is_None(prog, primary)
        THEN <<"metadata">>
             \o (IF link = "linked" THEN <<"sheets_api">> ELSE <<>>)
        ELSE <<>>)

\* export_form of forms.py, lines 125-138: the primary table, else the
\* fallback table; None when there is none or it has no rows.
Retrieved(f, api, link, sheet) ==
    LET primary == export_using_forms_api(f, api)
        t == IF df_is_None("bot", primary) THEN Fallback(link, sheet)
             ELSE primary
    IN IF t = None THEN None
       ELSE IF t.rows = <<>> THEN None
       ELSE t

\* The text "\n".join(msg_lines) builds.
Text(rows) == [kind |-> "text", rows |-> rows]


\* The membership query answering "no row" for every id.
existing_row_never(id) == FALSE

\* SELECT * FROM forms WHERE response_id = ? ... fetchone(): a row exists.
existing_row(id) == id \in store

\* ---------------------------------------------------------------- upstream
\* A respondent submits a response to form f; ct tells whether the createTime
\* the API reports for it will parse.
Submit(f, ct) ==
    /\ TotalResponses < MaxResponses
    /\ responses' = [responses EXCEPT
                        ![f] = Append(@, [id |-> TotalResponses + 1, ct |-> ct])]
    /\ UNCHANGED <<fvars, dvars, program, nvars, inflight, evars>>

\* ------------------------------------------- forms.py: check_stopped_loop
\* An exception leaves the loop body.  discord.ext.tasks runs the body again
\* after a backoff for the connection errors it knows (OSError,
\* aiohttp.ClientError, asyncio.TimeoutError, ...: "valid"), and ends the
\* loop for any other exception ("other").
Raised(exc) == IF exc = "valid" THEN "backoff" ELSE "stopped"

Excs == {"valid", "other"}

\* An iteration that is fired on the interval alone, also while the body of
\* the previous one is still running.
LoopIdle_overlapping == npc \in {"sleep", "fetch", "rows", "send"}

\* The loop waits for its next iteration: no iteration is running.
LoopIdle == npc = "sleep"

\* tasks.loop fires an iteration: for form_config in config["Forms"].
NTick ==
    /\ program = "bot"
    /\ LoopIdle
    /\ npc' = "export"
    /\ ni' = 1
    /\ UNCHANGED <<fvars, dvars, program, responses, store, df, idx, msg_lines, response_text,
                   sunk, delivered, store0, lastDf, inflight, evars, storeErr>>

\* Line 190: export_form(form_config["GOOGLE_FORM_ID"]) is called.
NBegin(f) ==
    /\ program = "bot"
    /\ npc = "export"
    /\ f = Forms[ni]
    /\ npc' = "fetch"
    /\ inflight' = [inflight EXCEPT ![f] = @ + 1]
    /\ store0' = store
    /\ df' = None
    /\ idx' = 1
    /\ msg_lines' = <<>>
    /\ response_text' = None
    /\ sunk' = None
    /\ storeErr' = FALSE
    /\ UNCHANGED <<fvars, dvars, program, responses, store, ni, delivered, lastDf, evars>>

\* Lines 123-150: credentials, retrieval, fallback, remap.
NFetch ==
    /\ program = "bot"
    /\ npc = "fetch"
    /\ \/ \E exc \in Excs :
            \* get_credentials or a client call raises something that is
            \* no HttpError
            /\ npc' = Raised(exc)
            /\ inflight' = [inflight EXCEPT ![Forms[ni]] = @ - 1]
            /\ UNCHANGED <<df, response_text>>
       \/ \E api \in {"ok", "http_error"}, link \in Links, sheet \in SheetTables :
            LET t == Retrieved(Forms[ni], api, link, sheet) IN
            /\ df' = t
            /\ IF t = None
               THEN /\ response_text' = NOTICE     \* lines 191-192
                    /\ npc' = "send"
               ELSE /\ response_text' = None
                    /\ npc' = "rows"
            /\ UNCHANGED inflight
    /\ UNCHANGED <<fvars, dvars, program, responses, store, ni, idx, msg_lines, sunk,
                   delivered, store0, lastDf, evars, storeErr>>

\* sqlite3.OperationalError "no such table: forms" where the query is run
\* without a table; and a query that runs into no error.
select_raises_never == FALSE

select_raises == ~table

insert_raises == ~table

\* INSERT that replaces what the table holds.
Inserted_replacing(st, id) == {id}

\* INSERT INTO forms VALUES (?) and commit.
Inserted(st, id) == st \cup {id}

\* Lines 152-170, one turn of for idx, row in df.iterrows() up to the INSERT:
\* the membership query, continue for a known row, else the lines of the
\* message; after the last row, lines 175-177 return the text.
NRow ==
    /\ program = "bot"
    /\ npc = "rows"
    /\ LET row == df.rows[idx]
           last == idx = Len(df.rows)
       IN IF ~df.rid
          THEN \* KeyError of row["responseId"]
               /\ npc' = Raised("other")
               /\ inflight' = [inflight EXCEPT ![Forms[ni]] = @ - 1]
               /\ UNCHANGED <<idx, msg_lines, response_text, storeErr>>
          ELSE IF select_raises
          THEN \* sqlite3.OperationalError of the SELECT
               /\ npc' = Raised("other")
               /\ inflight' = [inflight EXCEPT ![Forms[ni]] = @ - 1]
               /\ storeErr' = TRUE
               /\ UNCHANGED <<idx, msg_lines, response_text>>
          ELSE IF existing_row(row.id)
          THEN \* continue
               /\ idx' = idx + 1
               /\ npc' = IF last THEN "send" ELSE "rows"
               /\ response_text' = IF last THEN Text(msg_lines)
                                    ELSE response_text
               /\ storeErr' = (storeErr \/ ~table)
               /\ UNCHANGED <<msg_lines, inflight>>
          ELSE IF row.ct = "bad"
          THEN \* ValueError of strptime
               /\ npc' = Raised("other")
               /\ inflight' = [inflight EXCEPT ![Forms[ni]] = @ - 1]
               /\ storeErr' = (storeErr \/ ~table)
               /\ UNCHANGED <<idx, msg_lines, response_text>>
          ELSE /\ msg_lines' = Append(msg_lines, row)
               /\ npc' = "insert"
               /\ storeErr' = (storeErr \/ ~table)
               /\ UNCHANGED <<idx, response_text, inflight>>
    /\ UNCHANGED <<fvars, dvars, program, responses, store, ni, df, sunk, delivered,
                   store0, lastDf, evars>>

\* Lines 172-173: the INSERT and the commit for the row whose lines were
\* appended; after the last row, lines 175-177 return the text.
NInsert ==
    /\ program = "bot"
    /\ npc = "insert"
    /\ LET row == df.rows[idx]
           last == idx = Len(df.rows)
       IN IF insert_raises
          THEN /\ npc' = Raised("other")
               /\ inflight' = [inflight EXCEPT ![Forms[ni]] = @ - 1]
               /\ storeErr' = TRUE
               /\ UNCHANGED <<store, idx, response_text>>
          ELSE /\ store' = Inserted(store, row.id)
               /\ idx' = idx + 1
               /\ npc' = IF last THEN "send" ELSE "rows"
               /\ response_text' = IF last THEN Text(msg_lines)
                                    ELSE response_text
               /\ UNCHANGED <<inflight, storeErr>>
    /\ UNCHANGED <<fvars, dvars, program, responses, ni, df, msg_lines, sunk,
                   delivered, store0, lastDf, evars>>

\* Lines 194-207: get_channel, and channel.send when there is a channel and
\* a text.
NSend ==
    /\ program = "bot"
    /\ npc = "send"
    /\ lastDf' = IF dbop = "none" THEN [lastDf EXCEPT ![Forms[ni]] = df]
                 ELSE lastDf
    /\ \E channel \in {"found", "none"} :
          IF channel = "none" \/ response_text = Text(<<>>)
          THEN /\ npc' = "next"
               /\ UNCHANGED <<sunk, delivered>>
          ELSE \/ /\ npc' = "next"
                  /\ sunk' = response_text
                  /\ delivered' = delivered \cup SeqIds(response_text.rows)
               \/ \E exc \in Excs :
                     /\ npc' = Raised(exc)
                     /\ UNCHANGED <<sunk, delivered>>
    /\ inflight' = [inflight EXCEPT ![Forms[ni]] = @ - 1]
    /\ UNCHANGED <<fvars, dvars, program, responses, store, ni, df, idx, msg_lines,
                   response_text, store0, evars, storeErr>>

\* The for statement of line 188 takes the next form_config, or the iteration
\* is over and the loop sleeps delay_seconds.
NNext ==
    /\ program = "bot"
    /\ npc = "next"
    /\ IF ni < Len(Forms)
       THEN /\ ni' = ni + 1
            /\ npc' = "export"
       ELSE /\ ni' = ni
            /\ npc' = "sleep"
    /\ UNCHANGED <<fvars, dvars, program, responses, store, df, idx, msg_lines, response_text,
                   sunk, delivered, store0, lastDf, inflight, evars, storeErr>>

\* After the backoff the body runs again from the first form.
NBackoff ==
    /\ program = "bot"
    /\ npc = "backoff"
    /\ npc' = "export"
    /\ ni' = 1
    /\ UNCHANGED <<fvars, dvars, program, responses, store, df, idx, msg_lines, response_text,
                   sunk, delivered, store0, lastDf, inflight, evars, storeErr>>

\* ------------------------------- main.py / export.py: the export programs
\* form_config.get("ExportFormat", "csv") of the configured forms.
ExportFormat == [f \in FormIds |-> "csv"]

\* export_form of main.py (lines 139-190) and of export.py (lines 118-153):
\* "file" when a file was written, "none" for return None, "raise" for an
\* exception.  main.py falls back to the linked sheet when the primary table
\* is None.  export.py compares the pair (None, {}) that its
\* export_using_forms_api returns with None, so it never falls back and fails
\* on df.columns.
export_form(prog, f, api, link, sheet) ==
    LET primary == export_using_forms_api(f, api)
        t == IF df_is_None(prog, primary) THEN Fallback(link, sheet)
             ELSE primary
    IN IF t = None /\ df_is_None(prog, primary) THEN "none"
       ELSE IF t = None THEN "raise"      \* export.py: (None, {}).columns
       ELSE IF ExportFormat[f] \in {"csv", "xlsx"} THEN "file"
       ELSE "none"

\* The table export_form hands to df.to_csv / df.to_excel: all of what it
\* retrieved (None when it writes no file).
export_table(prog, f, api, link, sheet) ==
    LET primary == export_using_forms_api(f, api)
    IN IF export_form(prog, f, api, link, sheet) # "file" THEN None
       ELSE IF df_is_None(prog, primary) THEN Fallback(link, sheet)
       ELSE primary

\* What one call of export_form can do: the outcome and the table written,
\* for every answer of the clients, or an exception of get_credentials, of a
\* client (no HttpError) or of the file write.
ExportCalls(prog, f) ==
    {[r |-> export_form(prog, f, api, link, sheet),
      table |-> export_table(prog, f, api, link, sheet)] :
        api \in {"ok", "http_error"}, link \in Links, sheet \in SheetTables}
    \cup {[r |-> "raise", table |-> None]}

\* The outcomes one call of export_form can have.
ExportOutcomes(prog, f) == {c.r : c \in ExportCalls(prog, f)}

\* How often a record has been handed to the export sink.
Again(n) == IF n = "never" THEN "once" ELSE "again"

\* ecount after the rows of table t of form f went to the export sink.
Exported(f, t) ==
    IF t = None THEN ecount
    ELSE [ecount EXCEPT ![f] =
            [i \in Ids |-> IF i \in SeqIds(t.rows) THEN Again(ecount[f][i])
                           ELSE ecount[f][i]]]

\* initial_export / run_every_hour call export_form for the form at ei.
EBegin(f) ==
    /\ program \in {"main", "export"}
    /\ epc \in {"initial", "for"}
    /\ f = Forms[ei]
    /\ epc' = IF epc = "initial" THEN "initial_run" ELSE "for_run"
    /\ inflight' = [inflight EXCEPT ![f] = @ + 1]
    /\ UNCHANGED <<fvars, dvars, program, responses, nvars, ei, elast, ecount>>

\* initial_export: export_form returns or raises.  Nothing catches the
\* exception: it ends main.  After the last form main calls run_every_hour.
EInitialExport ==
    /\ epc = "initial_run"
    /\ \E c \in ExportCalls(program, Forms[ei]) : LET r == c.r IN
          /\ elast' = r
          /\ ecount' = Exported(Forms[ei], c.table)
          /\ IF r = "raise"
             THEN /\ epc' = "crashed"
                  /\ ei' = ei
             ELSE IF ei < Len(Forms)
             THEN /\ epc' = "initial"
                  /\ ei' = ei + 1
             ELSE /\ epc' = "for"
                  /\ ei' = 1
    /\ inflight' = [inflight EXCEPT ![Forms[ei]] = @ - 1]
    /\ UNCHANGED <<fvars, dvars, program, responses, nvars>>

\* run_every_hour, the body of try: export_form returns or raises; after the
\* last form the loop goes to asyncio.sleep(3600).
ERunEveryHour ==
    /\ epc = "for_run"
    /\ \E c \in ExportCalls(program, Forms[ei]) : LET r == c.r IN
          /\ elast' = r
          /\ ecount' = Exported(Forms[ei], c.table)
          /\ IF r = "raise"
             THEN /\ epc' = "except"
                  /\ ei' = ei
             ELSE IF ei < Len(Forms)
             THEN /\ epc' = "for"
                  /\ ei' = ei + 1
             ELSE /\ epc' = "sleep"
                  /\ ei' = ei
    /\ inflight' = [inflight EXCEPT ![Forms[ei]] = @ - 1]
    /\ UNCHANGED <<fvars, dvars, program, responses, nvars>>

\* asyncio.sleep(3600) is over: while True starts the next cycle.
ESleep ==
    /\ epc = "sleep"
    /\ epc' = "for"
    /\ ei' = 1
    /\ UNCHANGED <<fvars, dvars, program, responses, nvars, inflight, elast, ecount>>

\* except Exception: the error is printed and while True starts the next
\* cycle.
EExcept ==
    /\ epc = "except"
    /\ epc' = "for"
    /\ ei' = 1
    /\ UNCHANGED <<fvars, dvars, program, responses, nvars, inflight, elast, ecount>>

\* ------------------------------------------- sqlite.py: the table forms
\* forms(), lines 23-28: DROP TABLE forms and commit (no table: the
\* OperationalError is passed over).
Dropped == [table |-> FALSE, store |-> {}]

\* The table created anew whether or not there is one.
Ensured_recreating(tbl, st) == [table |-> TRUE, store |-> {}]

\* forms(), lines 30-38: SELECT * FROM forms; only when that fails, CREATE
\* TABLE IF NOT EXISTS forms and commit.
Ensured(tbl, st) ==
    IF tbl THEN [table |-> TRUE, store |-> st]
    ELSE [table |-> TRUE, store |-> {}]

\* check_tables: forms() with delete = False.
CheckTables ==
    /\ program = "bot"
    /\ table' = Ensured(table, store).table
    /\ store' = Ensured(table, store).store
    /\ dbop' = "check_tables"
    /\ lastDf' = [f \in FormIds |-> Never]
    /\ UNCHANGED <<fvars, program, responses, npc, ni, df, idx, msg_lines,
                   response_text, sunk, delivered, store0, storeErr,
                   inflight, evars, rpc>>

\* /refreshtable Forms, for the owner of the bot: refresh_table and forms(True)
\* up to the commit of the DROP.  Anyone else gets an answer only.
RRefresh ==
    /\ program = "bot"
    /\ rpc = "idle"
    /\ \E is_owner \in BOOLEAN :
          IF is_owner
          THEN /\ table' = Dropped.table
               /\ store' = Dropped.store
               /\ rpc' = "dropped"
               /\ dbop' = "drop"
               /\ delivered' = {}
               /\ lastDf' = [f \in FormIds |-> Never]
          ELSE UNCHANGED <<table, store, rpc, dbop, delivered, lastDf>>
    /\ UNCHANGED <<fvars, program, responses, npc, ni, df, idx, msg_lines,
                   response_text, sunk, store0, storeErr, inflight, evars>>

\* forms(True) after the DROP: the SELECT, and the CREATE when it fails.
RCreate ==
    /\ program = "bot"
    /\ rpc = "dropped"
    /\ table' = Ensured(table, store).table
    /\ store' = Ensured(table, store).store
    /\ rpc' = "idle"
    /\ dbop' = "create"
    /\ UNCHANGED <<fvars, program, responses, npc, ni, df, idx, msg_lines,
                   response_text, sunk, delivered, store0, lastDf, storeErr,
                   inflight, evars>>

\* ------------------------------------------------- the tables, cell by cell
\* The cells of a DataFrame are strings here; NaN (a cell pandas leaves
\* unfilled when it builds a frame from dicts) and None (a cell pandas leaves
\* unfilled when it builds a frame from lists of unequal length) are cells of
\* their own, different from every string of the input.
NaN == "<NaN>"

NoneCell == "<None>"

\* A DataFrame: the column labels and the rows, each as long as the labels.
DataFrame(columns, rows) == [kind |-> "df", columns |-> columns, rows |-> rows]

\* The question ids of the form.
QIds == {"q1", "q2"}

\* An answer of a response: one with the key "textAnswers" and the values of
\* its alternatives, or one of another shape with its str().
Answers ==
    {[shape |-> "text", alts |-> <<>>, str |-> "{'textAnswers': {}}"],
     [shape |-> "text", alts |-> <<"a", "b">>,
      str |-> "{'textAnswers': {'answers': [{'value': 'a'}, {'value': 'b'}]}}"],
     [shape |-> "file", alts |-> <<>>, str |-> "{'fileUploadAnswers': {}}"]}

\* response["answers"]: a dict, here the sequence of its items in the order
\* of the dict; no question id twice.
AnswerDicts ==
    {<<>>}
    \cup {<<[k |-> q, v |-> a]>> : q \in QIds, a \in Answers}
    \cup UNION {{<<[k |-> q1, v |-> a1], [k |-> q2, v |-> a2]>> :
                    q2 \in QIds \ {q1}, a1 \in Answers, a2 \in Answers} :
                 q1 \in QIds}

\* The keys of a dict, in its order.
keys(d) == [i \in 1..Len(d) |-> d[i].k]

\* d.get(k, default)
get(d, k, default) ==
    LET hits == SelectSeq(d, LAMBDA p : p.k = k)
    IN IF hits = <<>> THEN default ELSE hits[1].v

\* flatten_response, lines 46-54: the text of one answer.
text(answer) ==
    IF answer.shape = "text"
    THEN IF answer.alts # <<>> THEN answer.alts[1] ELSE ""
    ELSE answer.str

\* flatten_response: the row dict of one response.
flatten_response(response) ==
    <<[k |-> "responseId", v |-> response.responseId],
      [k |-> "createTime", v |-> response.createTime]>>
    \o [i \in 1..Len(response.answers) |->
           [k |-> response.answers[i].k, v |-> text(response.answers[i].v)]]

\* The elements of a sequence in the order of their first appearance.
RECURSIVE unique(_, _)
unique(seq, seen) ==
    IF seq = <<>> THEN <<>>
    ELSE IF Head(seq) \in seen THEN unique(Tail(seq), seen)
    ELSE <<Head(seq)>> \o unique(Tail(seq), seen \cup {Head(seq)})

RECURSIVE concat(_)
concat(seqs) == IF seqs = <<>> THEN <<>> ELSE Head(seqs) \o concat(Tail(seqs))

\* pd.DataFrame(rows) for a list of dicts: the keys in the order of their
\* first appearance as columns, NaN where a dict has no such key.
DataFrame_of_dicts(rows) ==
    LET columns == unique(concat([i \in 1..Len(rows) |-> keys(rows[i])]), {})
    IN DataFrame(columns,
                 [i \in 1..Len(rows) |->
                     [j \in 1..Len(columns) |-> get(rows[i], columns[j], NaN)]])

\* df with no cell replaced.
fillna_nothing(frame, value) == frame

\* df.fillna(value)
fillna(frame, value) ==
    [frame EXCEPT !.rows =
        [i \in 1..Len(@) |->
            [j \in 1..Len(@[i]) |-> IF @[i][j] = NaN THEN value ELSE @[i][j]]]]

\* What the Forms API answers: an HttpError, or the list of responses.
ApiAnswer(status, batch) == [status |-> status, responses |-> batch]

\* export_using_forms_api of main.py / forms.py, the table: None for an
\* HttpError or no responses, else the frame of the flattened responses.
forms_api_df(api) ==
    IF api.status = "http_error" \/ api.responses = <<>>
    THEN None
    ELSE fillna(DataFrame_of_dicts([i \in 1..Len(api.responses) |->
                                       flatten_response(api.responses[i])]),
                "")

\* What the Sheets API answers: an HttpError, or the values of the first
\* sheet, a list of lists of cells that need not be equally long.
SheetAnswer(status, values) == [status |-> status, values |-> values]

RECURSIVE longest(_)
longest(values) ==
    IF values = <<>> THEN 0
    ELSE LET n == longest(Tail(values))
         IN IF Len(Head(values)) > n THEN Len(Head(values)) ELSE n

\* pd.DataFrame(values) for a list of lists: as many columns as the longest
\* list has cells, labelled 0, 1, ...; None where a list is shorter.
DataFrame_of_lists(values) ==
    LET w == longest(values)
    IN DataFrame([j \in 1..w |-> ToString(j - 1)],
                 [i \in 1..Len(values) |->
                     [j \in 1..w |-> IF j <= Len(values[i]) THEN values[i][j]
                                     ELSE NoneCell]])

\* df.empty: no rows or no columns.
empty(frame) == frame.rows = <<>> \/ frame.columns = <<>>

\* export_using_sheet_api: None for an HttpError or no values; else the frame
\* of the values, with its first row as the column labels and taken off the
\* rows unless the frame is empty.
export_using_sheet_api(sheet) ==
    IF sheet.status = "http_error" \/ sheet.values = <<>>
    THEN None
    ELSE LET frame == DataFrame_of_lists(sheet.values)
         IN IF ~empty(frame)
            THEN DataFrame(frame.rows[1], Tail(frame.rows))
            ELSE frame

\* The column names export_form never renames.
reserved == {"responseId", "createTime"}

\* The elements of a sequence.
Range(seq) == {seq[i] : i \in 1..Len(seq)}

\* new_columns built from every column that is a key of the mapping.
new_columns_reserved_too(frame, mapping) ==
    [col \in {c \in Range(frame.columns) : c \in DOMAIN mapping} |->
        mapping[col]]

\* Lines 166-169 of main.py, 141-145 of forms.py: new_columns.
new_columns(frame, mapping) ==
    [col \in {c \in Range(frame.columns) :
                 c \notin reserved /\ c \in DOMAIN mapping} |-> mapping[col]]

\* df.rename(columns=new_columns): every label that is a key gets its value.
rename(frame, columns) ==
    [frame EXCEPT !.columns =
        [j \in 1..Len(@) |-> IF @[j] \in DOMAIN columns THEN columns[@[j]]
                             ELSE @[j]]]

\* Lines 164-174 of main.py, 140-148 of forms.py: if mapping, if new_columns.
remap(frame, mapping) ==
    IF DOMAIN mapping # {}
    THEN IF DOMAIN new_columns(frame, mapping) # {}
         THEN rename(frame, new_columns(frame, mapping))
         ELSE frame
    ELSE frame

\* The empty mapping {}.
NoMapping == [col \in {} |-> ""]

\* export_form up to the table it goes on with: the client calls it made,
\* and the table ("table"), return None ("none") or an exception ("raise").
\* export.py has no mapping.
export_form_df(prog, api, link, sheet, mapping) ==
    LET primary == forms_api_df(api)
        fallback == df_is_None(prog, primary)
        frame == IF fallback
                 THEN Fallback(link, export_using_sheet_api(sheet))
                 ELSE primary
        m == IF fallback \/ primary = None \/ prog = "export" THEN NoMapping
             ELSE mapping
        calls == Calls(prog, primary, link)
    IN IF frame = None
       THEN [calls |-> calls, df |-> None,
             r |-> IF fallback THEN "none" ELSE "raise"]
       ELSE IF prog = "bot" /\ empty(frame)
       THEN [calls |-> calls, df |-> None, r |-> "none"]
       ELSE [calls |-> calls, df |-> remap(frame, m), r |-> "table"]

\* ----------------------------------------------------------- specification
\* ------------------------------------------ single calls and their inputs
\* A response as the Forms API lists it.
Response(i, answers) ==
    [responseId |-> ToString(i), createTime |-> "2024-01-01T00:00:00.000Z",
     answers |-> answers]

\* The list of responses with the answers d[1], d[2], ...
Batch(d) == [i \in 1..Len(d) |-> Response(i, d[i])]

\* The values the Sheets API can answer with; a header cell may be a question
\* id.
GridCells == {"q1", ""}

\* A row of at most as many cells as there are different cells.
GridRows == UNION {[1..n -> GridCells] : n \in 0..Cardinality(GridCells)}

Grids == UNION {[1..n -> GridRows] : n \in 0..MaxGrid}

\* The two answers of the Forms API that make primary retrieval Unavailable.
NoResponses == {ApiAnswer("http_error", <<>>), ApiAnswer("ok", <<>>)}

SheetAnswers ==
    {SheetAnswer("http_error", <<>>)} \cup {SheetAnswer("ok", g) : g \in Grids}

\* config["MappingOverrides"]: question ids, and a reserved name, as keys.
MapKeys == {"responseId", "q1", "q2"}

DisplayNames == {"Name"}

Mappings == UNION {[S -> DisplayNames] : S \in SUBSET MapKeys}

\* The arguments of the calls under study.
FormsApiInput(api) == [op |-> "export_using_forms_api", api |-> api]

SheetApiInput(sheet) == [op |-> "export_using_sheet_api", sheet |-> sheet]

ExportFormInput(api, link, sheet, mapping) ==
    [op |-> "export_form", api |-> api, link |-> link, sheet |-> sheet,
     mapping |-> mapping]

\* export_using_forms_api of main.py / forms.py, for the table it returns.
CallFormsApi ==
    /\ fin.op = "export_using_forms_api"
    /\ fout.op = "none"
    /\ fout' = [op |-> fin.op, df |-> forms_api_df(fin.api)]
    /\ UNCHANGED <<fin, dvars, nvars, evars, program, responses, inflight>>

\* export_using_sheet_api.
CallSheetApi ==
    /\ fin.op = "export_using_sheet_api"
    /\ fout.op = "none"
    /\ fout' = [op |-> fin.op, df |-> export_using_sheet_api(fin.sheet)]
    /\ UNCHANGED <<fin, dvars, nvars, evars, program, responses, inflight>>

\* export_form of the program, up to the table it goes on with.
CallExportForm ==
    /\ fin.op = "export_form"
    /\ fout.op = "none"
    /\ LET out == export_form_df(program, fin.api, fin.link, fin.sheet,
                                 fin.mapping)
       IN fout' = [op |-> fin.op, calls |-> out.calls, df |-> out.df,
                   r |-> out.r]
    /\ UNCHANGED <<fin, dvars, nvars, evars, program, responses, inflight>>

\* The process at its start.
Start ==
    /\ program \in {"bot", "main", "export"}
    /\ responses = [f \in FormIds |-> <<>>]
    /\ store = {}
    /\ npc = IF program = "bot" THEN "sleep" ELSE "off"
    /\ ni = 1
    /\ df = None
    /\ idx = 1
    /\ msg_lines = <<>>
    /\ response_text = None
    /\ sunk = None
    /\ delivered = {}
    /\ store0 = {}
    /\ lastDf = [f \in FormIds |-> Never]
    /\ inflight = [f \in FormIds |-> 0]
    /\ epc = IF program = "bot" THEN "off" ELSE "initial"
    /\ ei = 1
    /\ elast = "none"
    /\ ecount = [f \in FormIds |-> [i \in Ids |-> "never"]]
    /\ table = TRUE
    /\ rpc = "idle"
    /\ dbop = "none"
    /\ storeErr = FALSE

Init ==
    /\ Start
    /\ fin = [op |-> "none"]
    /\ fout = [op |-> "none"]

Next ==
    \/ \E f \in FormIds, ct \in {"ok", "bad"} : Submit(f, ct)
    \/ NTick
    \/ \E f \in FormIds : NBegin(f)
    \/ NFetch
    \/ NRow
    \/ NInsert
    \/ NSend
    \/ NNext
    \/ NBackoff
    \/ \E f \in FormIds : EBegin(f)
    \/ EInitialExport
    \/ ERunEveryHour
    \/ ESleep
    \/ EExcept

Spec == Init /\ [][Next]_vars

\* The bot with its store management: check_tables and the command
\* /refreshtable can run at any time, also between two queries of a cycle.
NextRefresh ==
    \/ Next
    \/ CheckTables
    \/ RRefresh
    \/ RCreate

SpecRefresh == Init /\ [][NextRefresh]_vars

\* The functions of the pipeline, each called once on one of its inputs.
\* export_form is called with an API answer of at most one response (the
\* columns do not depend on how many rows there are); where the primary
\* table is there, with one linked sheet.
FnInit ==
    /\ Start
    /\ fout = [op |-> "none"]
    /\ \/ /\ program = "main"
          /\ \/ fin = FormsApiInput(ApiAnswer("http_error", <<>>))
             \/ \E n \in 0..MaxResponses : \E d \in [1..n -> AnswerDicts] :
                   fin = FormsApiInput(ApiAnswer("ok", Batch(d)))
       \/ /\ program = "main"
          /\ \E sheet \in SheetAnswers : fin = SheetApiInput(sheet)
       \/ \E api \in NoResponses, link \in Links, sheet \in SheetAnswers,
             mapping \in Mappings :
             fin = ExportFormInput(api, link, sheet, mapping)
       \/ \E d \in AnswerDicts, link \in Links, mapping \in Mappings :
             fin = ExportFormInput(ApiAnswer("ok", Batch(<<d>>)), link,
                                   SheetAnswer("ok", <<<<"q1">>, <<"q1">>>>),
                                   mapping)

FnNext ==
    \/ CallFormsApi
    \/ CallSheetApi
    \/ CallExportForm

FnSpec == FnInit /\ [][FnNext]_vars

\* ------------------------------------------------------------------ claims
\* The rows of a table whose responseId is not in the set S, in table order.
NewRows(rows, S) == SelectSeq(rows, LAMBDA r : r.id \notin S)

\* C1: every record id in the Dedup Store belongs to a row whose delivery
\* channel.send has already confirmed.
C1_StoreOnlyAfterDelivery == store \subseteq delivered

\* The current cycle built a message with rows and its delivery failed: the
\* body raised, or there was no channel to send to.
DeliveryFailed ==
    /\ msg_lines # <<>>
    /\ \/ npc \in {"stopped", "backoff"}
       \/ npc = "next" /\ sunk = None

\* C2: when the delivery of a cycle's new rows fails, the Dedup Store is as
\* it was before that cycle.
C2_FailedDeliveryKeepsStore == DeliveryFailed => store = store0

\* C3: a record id whose delivery succeeded is in no message a later cycle
\* builds.
C3_NoRedelivery ==
    npc \in {"rows", "insert", "send"} => SeqIds(msg_lines) \cap delivered = {}

\* C3, its case: a cycle has built its message from a table that holds a
\* record delivered by an earlier cycle.
C3_Witness ==
    /\ npc = "send"
    /\ df # None
    /\ \E k \in 1..Len(df.rows) : df.rows[k].id \in delivered

\* C4: the message a cycle delivers holds exactly the rows of the retrieved
\* table B whose record id is not in the store S of the cycle's start, in
\* table order, and the store is then S united with the record ids of B.
C4_ExactlyNewRows ==
    (npc = "next" /\ sunk.kind = "text") =>
        /\ sunk.rows = NewRows(df.rows, store0)
        /\ store = store0 \cup SeqIds(df.rows)

\* The cycle at hand retrieved the table the previous cycle of the same form
\* retrieved, and is about to decide on its message.
SecondSync == npc = "send" /\ lastDf[Forms[ni]] = df

\* C5 as stated: the second of two cycles on unchanged upstream data sends no
\* message and leaves the Dedup Store unchanged.
C5_SecondSyncSendsNothing ==
    [][SecondSync => (sunk' = None /\ store' = store0)]_vars

\* C5 as amended: the second of two cycles on unchanged upstream data
\* delivers no row and leaves the Dedup Store unchanged; it sends no message
\* when the retrieval gave rows, and nothing but the notice "No responses
\* found." when the retrieval gave no table.
C5_SecondSyncDeliversNoRow ==
    [][SecondSync =>
        /\ store' = store0
        /\ delivered' = delivered
        /\ sunk' \in {None, NOTICE}
        /\ df # None => sunk' = None]_vars

\* C5, its case: a second cycle on an unchanged, non-empty table.
C5_Witness == SecondSync /\ df # None

\* C6: a failed cycle never ends a scheduler loop: the notify loop is never
\* stopped, and the handler of run_every_hour can always start the next cycle.
C6_FailureNeverStopsScheduler ==
    /\ npc # "stopped"
    /\ epc = "except" => ENABLED EExcept

\* C7: when the sync of one source raises, no source after it in the
\* configured order is left unsynced in that cycle.
C7_FailureIsolatedPerSource ==
    /\ epc = "except" => ei = Len(Forms)
    /\ npc \in {"stopped", "backoff"} => ni = Len(Forms)

\* C8: a cycle of run_every_hour starts only after the sleep (the first one
\* after initial_export), also when the cycle before it raised.
C8_WaitBetweenCycles ==
    [][(epc' = "for" /\ ei' = 1 /\ epc # "for")
         => epc \in {"sleep", "initial_run"}]_vars

\* C9: at most one cycle per source is in flight.
C9_OneCyclePerSource == \A f \in FormIds : inflight[f] <= 1

\* C9, its case: a later tick has started a source again whose earlier cycle
\* has ended.
C9_Witness ==
    \/ program = "bot" /\ inflight[Forms[1]] = 1 /\ lastDf[Forms[1]] # Never
    \/ program = "main" /\ epc = "for_run" /\ ei = 1

\* C10: while the cycle of one source is outstanding, the cycle of a source
\* that is still due in this tick can start.
C10_DistinctSourcesConcurrent ==
    \A i, j \in 1..Len(Forms) :
        (i < j /\ inflight[Forms[i]] = 1)
            => ENABLED (NBegin(Forms[j]) \/ EBegin(Forms[j]))

\* C12: in export mode too, a record that an earlier cycle handed to the
\* export sink is filtered out by the Dedup Store: no record goes to the
\* export sink a second time.
C12_ExportFiltersThroughStore ==
    \A f \in FormIds, i \in Ids : ecount[f][i] # "again"

\* C13 as stated: no step of the bot, store management included, removes a
\* record id from the Dedup Store.
C13_StoreOnlyGrows == [][store \subseteq store']_vars

\* C13: no step of a sync cycle and no step of the store initialization
\* removes a record id from the Dedup Store; only the command /refreshtable
\* of the owner, which drops the table, removes entries.
C13_OnlyRefreshRemoves == [][store \subseteq store' \/ RRefresh]_vars

\* A cycle has added to a store that holds an entry, and check_tables ran.
C13_Witness ==
    /\ dbop = "check_tables"
    /\ Cardinality(store) = MaxResponses
    /\ npc = "send"

\* C14: check_tables leaves a table forms behind; on an existing table it
\* keeps the stored record ids as they are, on a missing one it creates an
\* empty table; it has no other outcome, so no error.
C14_CheckTablesIdempotent ==
    [][CheckTables => (table' /\ store' = IF table THEN store ELSE {})]_vars

\* check_tables ran on a table that holds record ids.
C14_Witness == dbop = "check_tables" /\ table /\ store # {}

\* C15: a cycle in which a query of the Dedup Store found no table has
\* failed at that query and has sent nothing; the row is never taken for a
\* new one.
C15_StoreErrorFailsCycle == storeErr => (npc = "stopped" /\ sunk = None)

\* The membership query or the INSERT of a cycle ran after a drop.
C15_Witness == storeErr /\ npc = "stopped" /\ dbop = "drop" /\ msg_lines # <<>>

\* Primary retrieval is Unavailable: an API error, or an answer with zero
\* records.
Unavailable(api) == api.status = "http_error" \/ api.responses = <<>>

\* fout holds what export_form of main.py or of forms.py gave.
ExportFormDone == fout.op = "export_form" /\ program \in {"bot", "main"}

\* C11: export_form of main.py and forms.py asks for the linked sheet if and
\* only if primary retrieval was Unavailable, and reads the sheet only after
\* a linked sheet was found; an API error and an answer with zero records
\* give the same calls and the same outcome; with no linked sheet, or with a
\* linked sheet without values, export_form returns None: no table goes on
\* to delivery or export.
C11_FallbackIffUnavailable ==
    ExportFormDone =>
        /\ "metadata" \in Range(fout.calls) <=> Unavailable(fin.api)
        /\ "sheets_api" \in Range(fout.calls)
              <=> (Unavailable(fin.api) /\ fin.link = "linked")
        /\ Unavailable(fin.api) =>
              \A a \in {ApiAnswer("http_error", <<>>), ApiAnswer("ok", <<>>)} :
                 LET out == export_form_df(program, a, fin.link, fin.sheet,
                                           fin.mapping)
                 IN /\ fout.calls = out.calls
                    /\ fout.df = out.df
                    /\ fout.r = out.r
        /\ (Unavailable(fin.api)
            /\ (fin.link = "none" \/ fin.sheet.values = <<>>)) =>
              (fout.r = "none" /\ fout.df = None)

\* After an API error, export_form of forms.py went on with the table of the
\* linked sheet.
C11_Witness ==
    /\ fout.op = "export_form"
    /\ program = "bot"
    /\ fin.api.status = "http_error"
    /\ fout.calls = <<"forms_api", "metadata", "sheets_api">>
    /\ fout.r = "table"

\* C20: export_form of export.py, when export_using_forms_api reports
\* Unavailable, asks for the linked sheet and then goes on with the fallback
\* table or returns None; it does not raise.
C20_ExportPyFallsBack ==
    (fout.op = "export_form" /\ program = "export" /\ Unavailable(fin.api)) =>
        /\ "metadata" \in Range(fout.calls)
        /\ fout.r \in {"table", "none"}

\* The table export_form holds before it renames columns, and the mapping
\* that goes with it: {} on the fallback path.
Retrieval ==
    IF Unavailable(fin.api)
    THEN [df |-> export_using_sheet_api(fin.sheet), mapping |-> NoMapping]
    ELSE [df |-> forms_api_df(fin.api), mapping |-> fin.mapping]

\* C16: the table export_form of main.py / forms.py goes on with has the
\* retrieved rows, and column for column the retrieved name, except that a
\* column of the primary table whose name is a key of the mapping and not
\* reserved has the mapped display name; on the fallback path every column
\* keeps its name.
C16_RenamesExactlyMappedColumns ==
    (ExportFormDone /\ fout.r = "table") =>
        LET before == Retrieval.df
            mapping == Retrieval.mapping
        IN /\ fout.df.rows = before.rows
           /\ Len(fout.df.columns) = Len(before.columns)
           /\ \A j \in 1..Len(before.columns) :
                 fout.df.columns[j] =
                    IF /\ before.columns[j] \notin reserved
                       /\ before.columns[j] \in DOMAIN mapping
                    THEN mapping[before.columns[j]]
                    ELSE before.columns[j]

\* A mapping with the keys responseId and q1 met a primary table with the
\* columns responseId, q1 and q2.
C16_Witness ==
    /\ ExportFormDone
    /\ DOMAIN fin.mapping = {"responseId", "q1"}
    /\ fout.r = "table"
    /\ fout.df.columns = <<"responseId", "createTime", "Name", "q2">>

\* A header cell q1 of the linked sheet met a mapping with the key q1.
C16_WitnessFallback ==
    /\ ExportFormDone
    /\ "q1" \in DOMAIN fin.mapping
    /\ fout.calls = <<"forms_api", "metadata", "sheets_api">>
    /\ fout.r = "table"
    /\ fout.df.columns = <<"q1", "">>

\* C17: when the mapping sends two columns of the retrieved table to one
\* display name, the table export_form goes on with has exactly one column
\* of that name, with the cells of the later of the two.
C17_CollisionLastWins ==
    (ExportFormDone /\ fout.r = "table") =>
        LET before == Retrieval.df
            mapping == Retrieval.mapping
            mapped(j) == /\ before.columns[j] \notin reserved
                         /\ before.columns[j] \in DOMAIN mapping
        IN \A j1, j2 \in 1..Len(before.columns) :
              (j1 < j2 /\ mapped(j1) /\ mapped(j2)
               /\ mapping[before.columns[j1]] = mapping[before.columns[j2]]) =>
                 LET name == mapping[before.columns[j2]]
                     named == {j \in 1..Len(fout.df.columns) :
                                  fout.df.columns[j] = name}
                 IN /\ Cardinality(named) = 1
                    /\ \A j \in named, i \in 1..Len(fout.df.rows) :
                          fout.df.rows[i][j] = before.rows[i][j2]

\* Where a question id first appears in a batch: the number of the response
\* and the place in its answers (0, 0 when it appears nowhere).
FirstAppearance(batch, q) ==
    LET hits == {<<i, j>> \in (1..Len(batch)) \X (1..Cardinality(QIds)) :
                    j <= Len(batch[i].answers) /\ batch[i].answers[j].k = q}
    IN IF hits = {} THEN <<0, 0>>
       ELSE CHOOSE h \in hits :
               \A g \in hits : h[1] < g[1] \/ (h[1] = g[1] /\ h[2] <= g[2])

Before(p1, p2) == p1[1] < p2[1] \/ (p1[1] = p2[1] /\ p1[2] < p2[2])

\* The cell the specification gives record r under field q.
Cell(r, q) ==
    LET hits == SelectSeq(r.answers, LAMBDA p : p.k = q)
    IN IF hits = <<>> THEN ""
       ELSE IF hits[1].v.shape = "text" /\ hits[1].v.alts # <<>>
       THEN hits[1].v.alts[1]
       ELSE IF hits[1].v.shape = "text" THEN ""
       ELSE hits[1].v.str

\* C18: the table of a batch of records has the columns responseId and
\* createTime and then every answered field id once, in the order of first
\* appearance; one row per record, in order, each as long as the columns;
\* the cell of a field the record did not answer is "", that of an answer
\* with text alternatives its first alternative, that of another answer its
\* str().
C18_PrimaryTableRectangular ==
    (fout.op = "export_using_forms_api" /\ ~Unavailable(fin.api)) =>
        LET batch == fin.api.responses
            columns == fout.df.columns
            rows == fout.df.rows
            answered == {q \in QIds : FirstAppearance(batch, q) # <<0, 0>>}
        IN /\ Len(columns) = 2 + Cardinality(answered)
           /\ columns[1] = "responseId"
           /\ columns[2] = "createTime"
           /\ {columns[j] : j \in 3..Len(columns)} = answered
           /\ \A j1, j2 \in 3..Len(columns) :
                 j1 < j2 => Before(FirstAppearance(batch, columns[j1]),
                                   FirstAppearance(batch, columns[j2]))
           /\ Len(rows) = Len(batch)
           /\ \A i \in 1..Len(rows) :
                 /\ Len(rows[i]) = Len(columns)
                 /\ rows[i][1] = batch[i].responseId
                 /\ rows[i][2] = batch[i].createTime
                 /\ \A j \in 3..Len(columns) :
                       rows[i][j] = Cell(batch[i], columns[j])

\* Two records: the first answered q2 only, with two text alternatives; the
\* second answered q1 with another shape and did not answer q2.
C18_Witness ==
    /\ fout.op = "export_using_forms_api"
    /\ Len(fin.api.responses) = 2
    /\ fout.df.columns = <<"responseId", "createTime", "q2", "q1">>
    /\ fout.df.rows[1][3] = "a"
    /\ fout.df.rows[1][4] = ""
    /\ fout.df.rows[2][3] = ""
    /\ fout.df.rows[2][4] = "{'fileUploadAnswers': {}}"

\* values[i] cut or filled up with "" to n cells.
Aligned(row, n) == [j \in 1..n |-> IF j <= Len(row) THEN row[j] ELSE ""]

\* C19: the table of a grid of n >= 1 rows has the cells of row 0 as its
\* columns and n - 1 rows, the i-th being row i of the grid brought to the
\* width of the header: filled up with "" or cut.
C19_FallbackTableAligned ==
    (fout.op = "export_using_sheet_api" /\ fin.sheet.values # <<>>) =>
        LET values == fin.sheet.values
            header == values[1]
        IN /\ fout.df # None
           /\ fout.df.columns = header
           /\ Len(fout.df.rows) = Len(values) - 1
           /\ \A i \in 1..Len(fout.df.rows) :
                 fout.df.rows[i] = Aligned(values[i + 1], Len(header))

\* C19, for the grids all of whose rows are as long as the header, and the
\* header not of width 0: the columns are row 0 and the rows are the other
\* rows as they are.
C19_RectangularGrid ==
    (/\ fout.op = "export_using_sheet_api"
     /\ fin.sheet.values # <<>>
     /\ fin.sheet.values[1] # <<>>
     /\ \A i \in 1..Len(fin.sheet.values) :
           Len(fin.sheet.values[i]) = Len(fin.sheet.values[1])) =>
        /\ fout.df # None
        /\ fout.df.columns = fin.sheet.values[1]
        /\ fout.df.rows = Tail(fin.sheet.values)

\* The cycle at hand of the notify loop took the fallback path and holds the
\* table of a linked sheet with at least one data row.
FallbackRows == df # None /\ df.rows # <<>> /\ df.rows[1].ct = "absent"

\* C21: a cycle of the notify loop on the rows of a linked sheet does not
\* fail inside export_form, whatever the header row of the sheet holds: no
\* exception leaves export_form before it has returned its text.
C21_FallbackCycleNeverFails ==
    (FallbackRows /\ response_text = None) => npc \notin {"stopped", "backoff"}

\* The rows whose record id is not in seen and in no row before them.
RECURSIVE FirstOccurrences(_, _)
FirstOccurrences(rows, seen) ==
    IF rows = <<>> THEN <<>>
    ELSE IF Head(rows).id \in seen THEN FirstOccurrences(Tail(rows), seen)
    ELSE <<Head(rows)>>
         \o FirstOccurrences(Tail(rows), seen \cup {Head(rows).id})

C23_InitialExportFailureKeepsMain == epc # "crashed"

====
